---- MODULE Spec2Model ----
(***************************************************************************)
(* State-machine model of pydrive2/auth.py: the GoogleAuth authenticator, *)
(* its CheckAuth / CheckServiceAuth decorators, client-configuration      *)
(* loading, credential storage backends and the token lifecycle.          *)
(*                                                                         *)
(* A method of GoogleAuth is an operator from an object record `st` (the  *)
(* fields of self, the storage contents, the exception raised so far, the *)
(* external calls made so far) to the record after the call.  Every       *)
(* method operator is strict in st.err: once an exception is raised the   *)
(* remaining statements are skipped and the fields keep the values they   *)
(* had when it was raised, as in Python.                                  *)
(***************************************************************************)
EXTENDS Naturals, Sequences, FiniteSets, TLC

None == "None"
Absent == "absent"
Empty == "empty"
Present == "set"
NoErr == "none"

MaxTime == 1
TokenLife == 1
MaxServiceList == 2

(***************************************************************************)
(* Class attributes of GoogleAuth.                                         *)
(***************************************************************************)
CLIENT_CONFIGS_LIST ==
  <<"client_id", "client_secret", "auth_uri", "token_uri", "revoke_uri", "redirect_uri">>

SERVICE_CONFIGS_LIST_initial == <<"client_user_email">>

\* slip: the order of the constructors in ServiceAuth
ServiceKeyConfigs_dict_first ==
  <<"client_json_dict", "client_json", "client_json_file_path", "client_pkcs12_file_path">>

ServiceKeyConfigs ==
  <<"client_json_file_path", "client_json_dict", "client_json", "client_pkcs12_file_path">>

ClientSecretsRequired == <<"client_id", "client_secret", "auth_uri", "token_uri">>

DefaultPorts == <<8080, 8090>>

OOB_CALLBACK_URN == "urn:ietf:wg:oauth:2.0:oob"

Range(s) == {s[i] : i \in DOMAIN s}

ClientKeys == Range(CLIENT_CONFIGS_LIST)
ServiceKeys == Range(ServiceKeyConfigs) \cup {"client_user_email", "client_service_email"}
ConfigKeys == ClientKeys \cup ServiceKeys \cup {"client_email"}
SecretsKeys == Range(ClientSecretsRequired) \cup {"revoke_uri", "redirect_uris", "client_email"}

EmptyConfig == [k \in ConfigKeys |-> Absent]

\* `key in mapping`
Has(m, k) == m[k] # Absent
\* truthiness of mapping.get(key)
Truthy(m, k) == m[k] = Present

(***************************************************************************)
(* Credentials and their serialised form in a storage backend.             *)
(***************************************************************************)
oauth_scope == "https://www.googleapis.com/auth/drive"

\* token_expiry is {} (no expiry) or {t}; sub is the delegated user, if any
Credential(at, rt, exp, sub) ==
  [access_token |-> at, refresh_token |-> rt, token_expiry |-> exp,
   scopes |-> oauth_scope, sub |-> sub, store |-> None]

\* set_store(storage)
set_store(c, storage) == [c EXCEPT !.store = storage]

\* what put() writes: the token bundle without the store binding
to_json(c) ==
  [access_token |-> c.access_token, refresh_token |-> c.refresh_token,
   token_expiry |-> c.token_expiry, scopes |-> c.scopes, sub |-> c.sub]

\* what get() returns for a stored bundle: a credential bound to the storage
from_json(j, storage) ==
  [access_token |-> j.access_token, refresh_token |-> j.refresh_token,
   token_expiry |-> j.token_expiry, scopes |-> j.scopes, sub |-> j.sub,
   store |-> storage]

\* credentials.access_token_expired
CredentialExpired(c, t) == \E e \in c.token_expiry : e <= t

\* the token the remote issues at time t
TokenAt(t) == "at" \o ToString(t)

(***************************************************************************)
(* State.  An optional object (credentials, flow) is the empty set or a    *)
(* singleton.                                                              *)
(***************************************************************************)
VARIABLES
  settings,              \* self.settings (validated once, never changed)
  client_secrets,        \* content of the client-secrets file
  client_config,         \* self.client_config
  flow,                  \* self.flow
  credentials,           \* self.credentials
  http,                  \* self.http: None, "plain" or "authorized"
  service,               \* self.service: None or "built"
  auth_method,           \* self.auth_method
  _storages,             \* self._storages
  _default_storage,      \* self._default_storage
  SERVICE_CONFIGS_LIST,  \* GoogleAuth.SERVICE_CONFIGS_LIST (class attribute)
  stored,                \* content of every storage backend
  now,                   \* current time
  lastOp,                \* the last call: the method
  lastArg,               \* its arguments and inputs, as <<name, value>> pairs
  lastErr,               \* the exception it raised, or NoErr
  lastRet,               \* the value it returned
  lastIO,                \* the external calls it made
  savedTo,               \* the arguments of the call before it, if that was a
                         \* SaveCredentials that succeeded; {} otherwise
  auth,                  \* the guarded object's self.auth is not None
  obj_http,              \* the guarded object's self.http
  thread_local,          \* self.auth.thread_local.http of every thread
  pc,                    \* where every thread is in LoadAuth._decorated
  param,                 \* kwargs["param"]["http"] of every thread's call
  used                   \* the transport the body run by every thread took

vars ==
  <<settings, client_secrets, client_config, flow, credentials, http, service,
    auth_method, _storages, _default_storage, SERVICE_CONFIGS_LIST, stored, now,
    lastOp, lastArg, lastErr, lastRet, lastIO, savedTo,
    auth, obj_http, thread_local, pc, param, used>>

\* the state of an object guarded by LoadAuth and of the threads calling it
guardVars == <<auth, obj_http, thread_local, pc, param, used>>

Threads == {"t1", "t2"}

StorageIds == {"file", "dictionary", "redis", "file:other"}

The(S) == CHOOSE x \in S : TRUE

\* the object, the storages and the outcome so far, as one record
Self ==
  [client_config |-> client_config, flow |-> flow, credentials |-> credentials,
   http |-> http, service |-> service, auth_method |-> auth_method,
   default_storage |-> _default_storage, scl |-> SERVICE_CONFIGS_LIST,
   stored |-> stored, err |-> NoErr, io |-> {}, ret |-> None,
   dirty |-> FALSE, code |-> None]

Raise(st, e) == [st EXCEPT !.err = e]
Did(st, call) == [st EXCEPT !.io = @ \cup {call}]
Failed(st) == st.err # NoErr

(***************************************************************************)
(* Storage backends: get() and put().                                      *)
(***************************************************************************)
StorageGet(st, storage) ==
  IF st.stored[storage] = {} THEN {} ELSE {from_json(The(st.stored[storage]), storage)}

StoragePut(st, storage, c) ==
  [st EXCEPT !.stored[storage] = {to_json(c)}]

(***************************************************************************)
(* GoogleAuth._InitializeStoragesFromSettings                              *)
(***************************************************************************)
InitializeStoragesFromSettings(s) ==
  LET backend == s.save_credentials_backend
      result == [file |-> None, dictionary |-> None, redis |-> Absent]
      res(e, r) == [err |-> e, storages |-> r,
                    default |-> IF backend \in DOMAIN r /\ r[backend] # Absent
                                THEN r[backend] ELSE None]
  IN  IF backend = "file" THEN
        IF s.save_credentials_file = None
        THEN res("InvalidConfigError", result)
        ELSE res(NoErr, [result EXCEPT !.file = "file"])
      ELSE IF backend = "dictionary" THEN
        IF s.save_credentials_dict = None THEN res("InvalidConfigError", result)
        ELSE IF s.save_credentials_key = None THEN res("InvalidConfigError", result)
        ELSE res(NoErr, [result EXCEPT !.dictionary = "dictionary"])
      ELSE IF backend = "redis" THEN
        res(NoErr, [result EXCEPT !.redis = "redis"])
      ELSE IF s.save_credentials THEN res("InvalidConfigError", result)
      ELSE res(NoErr, result)

(***************************************************************************)
(* GoogleAuth.access_token_expired                                         *)
(***************************************************************************)
\* slip: the `is None` test left out, no credential reads as not expired
access_token_expired_unguarded(creds, t) ==
  creds # {} /\ CredentialExpired(The(creds), t)

access_token_expired(creds, t) ==
  IF creds = {} THEN TRUE ELSE CredentialExpired(The(creds), t)

(***************************************************************************)
(* Loading credentials.                                                    *)
(***************************************************************************)
\* the tail shared by the three loaders: get(), then bind what was read
GetAndBind(st, storage) ==
  LET got == StorageGet(st, storage)
  IN  [Did(st, "get") EXCEPT
         !.credentials = IF got = {} THEN {} ELSE {set_store(The(got), storage)}]

LoadCredentialsFile(st, credentials_file, oserror) ==
  IF Failed(st) THEN st
  ELSE LET storage == IF credentials_file = None THEN _storages["file"] ELSE "file:other"
           s1 == [st EXCEPT !.default_storage = storage]
       IN  IF storage = None THEN Raise(s1, "InvalidConfigError")
           ELSE IF oserror THEN Raise(Did(s1, "get"), "InvalidCredentialsError")
           ELSE GetAndBind(s1, storage)

LoadCredentialsDictionary(st) ==
  IF Failed(st) THEN st
  ELSE LET storage == _storages["dictionary"]
           s1 == [st EXCEPT !.default_storage = storage]
       IN  IF storage = None THEN Raise(s1, "InvalidConfigError")
           ELSE GetAndBind(s1, storage)

LoadCredentialsRedis(st) ==
  IF Failed(st) THEN st
  ELSE LET storage == _storages["redis"]
       IN  IF storage = Absent THEN Raise(st, "KeyError")
           ELSE GetAndBind([st EXCEPT !.default_storage = storage], storage)

ResolveBackend(backend) ==
  IF backend = None THEN settings.save_credentials_backend ELSE backend

LoadCredentials(st, backend, oserror) ==
  IF Failed(st) THEN st
  ELSE LET b == ResolveBackend(backend)
       IN  IF b = None THEN Raise(st, "InvalidConfigError")
           ELSE IF b = "file" THEN LoadCredentialsFile(st, None, oserror)
           ELSE IF b = "dictionary" THEN LoadCredentialsDictionary(st)
           ELSE IF b = "redis" THEN LoadCredentialsRedis(st)
           ELSE Raise(st, "InvalidConfigError")

(***************************************************************************)
(* Saving credentials.                                                     *)
(***************************************************************************)
SaveCredentialsFile(st, credentials_file, oserror) ==
  IF Failed(st) THEN st
  ELSE IF st.credentials = {} THEN Raise(st, "InvalidCredentialsError")
  ELSE LET storage == IF credentials_file = None THEN _storages["file"] ELSE "file:other"
       IN  IF storage = None THEN Raise(st, "InvalidConfigError")
           ELSE IF oserror THEN Raise(Did(st, "put"), "InvalidCredentialsError")
           ELSE StoragePut(Did(st, "put"), storage, The(st.credentials))

SaveCredentialsDictionary(st) ==
  IF Failed(st) THEN st
  ELSE IF st.credentials = {} THEN Raise(st, "InvalidCredentialsError")
  ELSE LET storage == _storages["dictionary"]
       IN  IF storage = None THEN Raise(st, "InvalidConfigError")
           ELSE StoragePut(Did(st, "put"), storage, The(st.credentials))

\* slip: the credential never reaches the backend
SaveCredentialsRedis_no_put(st) ==
  IF Failed(st) THEN st
  ELSE LET storage == _storages["redis"]
       IN  IF storage = Absent THEN Raise(st, "KeyError")
           ELSE IF st.credentials = {} THEN Raise(Did(st, "put"), "AttributeError")
           ELSE Did(st, "put")

\* put(None) dereferences None inside the backend
SaveCredentialsRedis(st) ==
  IF Failed(st) THEN st
  ELSE LET storage == _storages["redis"]
       IN  IF storage = Absent THEN Raise(st, "KeyError")
           ELSE IF st.credentials = {} THEN Raise(Did(st, "put"), "AttributeError")
           ELSE StoragePut(Did(st, "put"), storage, The(st.credentials))

SaveCredentials(st, backend, oserror) ==
  IF Failed(st) THEN st
  ELSE LET b == ResolveBackend(backend)
       IN  IF b = None THEN Raise(st, "InvalidConfigError")
           ELSE IF b = "file" THEN SaveCredentialsFile(st, None, oserror)
           ELSE IF b = "dictionary" THEN SaveCredentialsDictionary(st)
           ELSE IF b = "redis" THEN SaveCredentialsRedis(st)
           ELSE Raise(st, "InvalidConfigError")

(***************************************************************************)
(* Loading the client configuration.                                       *)
(***************************************************************************)
\* position of the first key of seq that mapping m lacks, 0 if it has them all
FirstMissing(seq, m) ==
  IF \A i \in DOMAIN seq : Has(m, seq[i]) THEN 0
  ELSE CHOOSE i \in DOMAIN seq :
         /\ ~Has(m, seq[i])
         /\ \A j \in 1..(i - 1) : Has(m, seq[j])

\* cfg[k] = src[k] for the first n keys of seq, in order
CopyKeys(cfg, seq, n, src) ==
  [k \in DOMAIN cfg |-> IF \E i \in 1..n : seq[i] = k THEN src[k] ELSE cfg[k]]

\* clientsecrets.loadfile raises InvalidClientSecretsError on a file it cannot load
LoadClientConfigFile(st) ==
  IF Failed(st) THEN st
  ELSE LET client_type == client_secrets.client_type
           client_info == client_secrets.info
           miss == FirstMissing(ClientSecretsRequired, client_info)
           general == CopyKeys(st.client_config, ClientSecretsRequired,
                               IF miss = 0 THEN Len(ClientSecretsRequired) ELSE miss - 1,
                               client_info)
           revoked == [general EXCEPT !["revoke_uri"] =
                         IF Has(client_info, "revoke_uri") THEN Present ELSE Empty]
           redirected == [revoked EXCEPT !["redirect_uri"] = Present]
           emailed == IF Has(client_info, "client_email")
                      THEN [redirected EXCEPT !["client_email"] = Present]
                      ELSE redirected
           s0 == Did(st, "read_client_secrets")
       IN  IF client_secrets.malformed THEN Raise(s0, "InvalidConfigError")
           ELSE IF client_type \notin {"web", "installed"}
             THEN Raise(s0, "InvalidConfigError")
           ELSE IF miss # 0
             THEN Raise([s0 EXCEPT !.client_config = general], "InvalidConfigError")
           ELSE IF client_info["redirect_uris"] = Absent
             THEN Raise([s0 EXCEPT !.client_config = revoked], "InvalidConfigError")
           ELSE IF client_info["redirect_uris"] = Empty
             THEN Raise([s0 EXCEPT !.client_config = revoked], "IndexError")
           ELSE [s0 EXCEPT !.client_config = emailed]

LoadClientConfigSettings(st) ==
  IF Failed(st) THEN st
  ELSE LET miss == FirstMissing(CLIENT_CONFIGS_LIST, settings.client_config)
           copied == CopyKeys(st.client_config, CLIENT_CONFIGS_LIST,
                              IF miss = 0 THEN Len(CLIENT_CONFIGS_LIST) ELSE miss - 1,
                              settings.client_config)
           s1 == [st EXCEPT !.client_config = copied]
       IN  IF miss # 0 THEN Raise(s1, "InvalidConfigError") ELSE s1

\* position in ServiceKeyConfigs of the key material the loop stops at, 0 if none
ChosenKey(service_config) ==
  IF \A i \in DOMAIN ServiceKeyConfigs : ~Truthy(service_config, ServiceKeyConfigs[i])
  THEN 0
  ELSE CHOOSE i \in DOMAIN ServiceKeyConfigs :
         /\ Truthy(service_config, ServiceKeyConfigs[i])
         /\ \A j \in 1..(i - 1) : ~Truthy(service_config, ServiceKeyConfigs[j])

\* slip: the required fields computed for the call, the shared list left alone
LoadServiceConfigSettingsWith_local_list(st, sc) ==
  IF Failed(st) THEN st
  ELSE LET chosen == ChosenKey(sc)
           config == ServiceKeyConfigs[chosen]
           keyed == [st.client_config EXCEPT ![config] = sc[config]]
           required == IF config = "client_pkcs12_file_path"
                       THEN Append(st.scl, "client_service_email")
                       ELSE st.scl
           miss == FirstMissing(required, sc)
           copied == CopyKeys(keyed, required,
                              IF miss = 0 THEN Len(required) ELSE miss - 1, sc)
           s1 == [st EXCEPT !.client_config = copied]
       IN  IF chosen = 0 THEN Raise(st, "InvalidConfigError")
           ELSE IF miss # 0 THEN Raise(s1, "InvalidConfigError")
           ELSE s1

\* LoadServiceConfigSettings of an instance whose settings["service_config"] is sc
LoadServiceConfigSettingsWith(st, sc) ==
  IF Failed(st) THEN st
  ELSE LET chosen == ChosenKey(sc)
           config == ServiceKeyConfigs[chosen]
           keyed == [st.client_config EXCEPT ![config] = sc[config]]
           required == IF config = "client_pkcs12_file_path"
                       THEN Append(st.scl, "client_service_email")
                       ELSE st.scl
           miss == FirstMissing(required, sc)
           copied == CopyKeys(keyed, required,
                              IF miss = 0 THEN Len(required) ELSE miss - 1, sc)
           s1 == [st EXCEPT !.client_config = copied, !.scl = required]
       IN  IF chosen = 0 THEN Raise(st, "InvalidConfigError")
           ELSE IF miss # 0 THEN Raise(s1, "InvalidConfigError")
           ELSE s1

LoadServiceConfigSettings(st) == LoadServiceConfigSettingsWith(st, settings.service_config)

LoadClientConfig(st, backend) ==
  IF Failed(st) THEN st
  ELSE LET b == IF backend = None THEN settings.client_config_backend ELSE backend
       IN  IF b = None THEN Raise(st, "InvalidConfigError")
           ELSE IF b = "file" THEN LoadClientConfigFile(st)
           ELSE IF b = "settings" THEN LoadClientConfigSettings(st)
           ELSE IF b = "service" THEN LoadServiceConfigSettings(st)
           ELSE Raise(st, "InvalidConfigError")

(***************************************************************************)
(* GoogleAuth.GetFlow                                                      *)
(***************************************************************************)
OAuth2WebServerFlow(cfg) ==
  [client_id |-> cfg["client_id"], scope |-> oauth_scope, redirect_uri |-> "client_config",
   access_type |-> IF settings.get_refresh_token THEN "offline" ELSE "online"]

\* `if not all(config in self.client_config ...): self.LoadClientConfig()`
EnsureClientConfig(st) ==
  IF \A i \in DOMAIN CLIENT_CONFIGS_LIST : Has(st.client_config, CLIENT_CONFIGS_LIST[i])
  THEN st
  ELSE LoadClientConfig(st, None)

\* the rest of GetFlow: every self.client_config[...] it reads must be there
BuildFlow(st) ==
  IF Failed(st) THEN st
  ELSE IF \E k \in ClientKeys : ~Has(st.client_config, k) THEN Raise(st, "KeyError")
  ELSE [st EXCEPT !.flow = {OAuth2WebServerFlow(st.client_config)},
                  !.io = @ \cup {"OAuth2WebServerFlow"}]

GetFlow(st) == IF Failed(st) THEN st ELSE BuildFlow(EnsureClientConfig(st))

(***************************************************************************)
(* Refresh, Authorize, Authenticate, Auth.                                 *)
(***************************************************************************)
build_http(h) == IF h = None THEN "plain" ELSE h

\* credentials.refresh(http), accepted by the remote at time t
Refreshed(c, t) ==
  [c EXCEPT !.access_token = TokenAt(t), !.token_expiry = {t + TokenLife}]

\* the credential flow.step2_exchange returns at time t
Exchanged(f, t) ==
  Credential(TokenAt(t), IF f.access_type = "offline" THEN "rt" ELSE None,
             {t + TokenLife}, None)

\* slip: the auth_method test left out
RefreshRejects_any_method(creds, method) ==
  \/ creds = {}
  \/ The(creds).refresh_token = None

RefreshRejects(creds, method) ==
  \/ creds = {}
  \/ The(creds).refresh_token = None /\ method # "service"

Refresh(st, accepted) ==
  IF Failed(st) THEN st
  ELSE IF RefreshRejects(st.credentials, st.auth_method) THEN Raise(st, "RefreshError")
  ELSE IF accepted
    THEN [st EXCEPT !.http = build_http(st.http), !.io = @ \cup {"refresh"},
                    !.credentials = {Refreshed(The(st.credentials), now)}]
  ELSE [st EXCEPT !.http = build_http(st.http),
                  !.io = @ \cup {"refresh", "AccessTokenRefreshError"},
                  !.err = "RefreshError"]

\* slip: only a missing credential is rejected
AuthorizeRejects_none_only(creds, t) == creds = {}

AuthorizeRejects(creds, t) == access_token_expired(creds, t)

Authorize(st) ==
  IF Failed(st) THEN st
  ELSE IF AuthorizeRejects(st.credentials, now) THEN Raise(st, "AuthenticationError")
  ELSE [st EXCEPT !.http = "authorized", !.service = "built", !.io = @ \cup {"build"}]

\* `if self.flow is None: self.GetFlow()`
EnsureFlow(st) == IF st.flow = {} THEN GetFlow(st) ELSE st

\* slip: the credential assigned before the exchange is known to be accepted
Exchange_drops_credential(st, code, accepted) ==
  IF Failed(st) THEN st
  ELSE IF accepted
    THEN [st EXCEPT !.io = @ \cup {"exchange"},
                    !.credentials = {Exchanged(The(st.flow), now)}]
  ELSE [st EXCEPT !.io = @ \cup {"exchange", "FlowExchangeError"},
                  !.credentials = {}, !.err = "AuthenticationError"]

\* self.flow.step2_exchange(code)
Exchange(st, code, accepted) ==
  IF Failed(st) THEN st
  ELSE IF accepted
    THEN [st EXCEPT !.io = @ \cup {"exchange"},
                    !.credentials = {Exchanged(The(st.flow), now)}]
  ELSE [st EXCEPT !.io = @ \cup {"exchange", "FlowExchangeError"},
                  !.err = "AuthenticationError"]

Authenticate(st, code, accepted) == Exchange(EnsureFlow(st), code, accepted)

Auth(st, code, accepted) == Authorize(Authenticate(st, code, accepted))

Step1(st, call, result) ==
  IF Failed(st) THEN st ELSE [st EXCEPT !.io = @ \cup {call}, !.ret = result]

GetAuthUrl(st) == Step1(EnsureFlow(st), "authorize_url", "authorize_url")

GetDeviceCode(st) == Step1(EnsureFlow(st), "device_code", "user_and_device_code")

(***************************************************************************)
(* The bodies of the four authorization methods (the decoratees).          *)
(***************************************************************************)
\* slip: the loop goes on after a listener is bound
BoundPort_last(port_numbers, free) ==
  IF \A i \in DOMAIN port_numbers : port_numbers[i] \notin free THEN 0
  ELSE port_numbers[CHOOSE i \in DOMAIN port_numbers :
                      /\ port_numbers[i] \in free
                      /\ \A j \in (i + 1)..Len(port_numbers) : port_numbers[j] \notin free]

\* the first port of port_numbers on which the listener binds, 0 if none does
BoundPort(port_numbers, free) ==
  IF \A i \in DOMAIN port_numbers : port_numbers[i] \notin free THEN 0
  ELSE port_numbers[CHOOSE i \in DOMAIN port_numbers :
                      /\ port_numbers[i] \in free
                      /\ \A j \in 1..(i - 1) : port_numbers[j] \notin free]

oauth_callback(port_number) == "http://localhost:" \o ToString(port_number) \o "/"

\* self.flow.redirect_uri = uri
SetRedirect(st, uri) ==
  IF Failed(st) THEN st
  ELSE [st EXCEPT !.flow = {[The(st.flow) EXCEPT !.redirect_uri = uri]}]

\* query is the set of <<parameter, value>> pairs of the redirect request
QueryHas(query, name) == \E q \in query : q[1] = name
QueryGet(query, name) == (CHOOSE q \in query : q[1] = name)[2]

\* slip: "code" looked up before "error"
HandleRequest_code_first(st, query) ==
  IF Failed(st) THEN st
  ELSE IF QueryHas(query, "code")
    THEN [st EXCEPT !.io = @ \cup {"handle_request"}, !.ret = QueryGet(query, "code")]
  ELSE IF QueryHas(query, "error")
    THEN [st EXCEPT !.io = @ \cup {"handle_request"}, !.err = "AuthenticationRejected"]
  ELSE [st EXCEPT !.io = @ \cup {"handle_request"}, !.err = "AuthenticationError"]

\* httpd.handle_request() and what follows it
HandleRequest(st, query) ==
  IF Failed(st) THEN st
  ELSE IF QueryHas(query, "error")
    THEN [st EXCEPT !.io = @ \cup {"handle_request"}, !.err = "AuthenticationRejected"]
  ELSE IF QueryHas(query, "code")
    THEN [st EXCEPT !.io = @ \cup {"handle_request"}, !.ret = QueryGet(query, "code")]
  ELSE [st EXCEPT !.io = @ \cup {"handle_request"}, !.err = "AuthenticationError"]

\* the ports tried: port_numbers is {} (None, the default) or {list}
PortsTried(port_numbers) == IF port_numbers = {} THEN DefaultPorts ELSE The(port_numbers)

LocalWebserverAuthBody(st, port_numbers, free, query) ==
  IF Failed(st) THEN st
  ELSE IF BoundPort(PortsTried(port_numbers), free) = 0
    THEN Raise(st, "AuthenticationError")
  ELSE HandleRequest(
         GetAuthUrl(SetRedirect(st, oauth_callback(BoundPort(PortsTried(port_numbers), free)))),
         query)

\* input("Enter verification code: ").strip()
ReadCode(st, typed) == IF Failed(st) THEN st ELSE [st EXCEPT !.ret = typed]

CommandLineAuthBody(st, typed) ==
  ReadCode(GetAuthUrl(SetRedirect(st, OOB_CALLBACK_URN)), typed)

DeviceTokenExpiry == 0

\* OAuth2Credentials.from_json(...) of the token endpoint's response
DeviceCredential(f) ==
  Credential(TokenAt(now), "rt", {DeviceTokenExpiry}, None)

\* self.client_config.get("client_id")
DeviceClientId(cfg) == IF cfg["client_id"] = Present THEN Present ELSE None

\* the first two assignments of DeviceAuth and its client_id check
DeviceSetup(st) ==
  IF Failed(st) THEN st
  ELSE [st EXCEPT !.flow = {[The(st.flow) EXCEPT
                               !.client_id = DeviceClientId(st.client_config),
                               !.scope = oauth_scope]},
                  !.err = IF DeviceClientId(st.client_config) = None
                          THEN "InvalidConfigError" ELSE NoErr]

\* requests.post(token_uri) and the credential made of its response
DeviceToken(st, status_ok) ==
  IF Failed(st) THEN st
  ELSE IF ~status_ok
    THEN [st EXCEPT !.io = @ \cup {"token_request"}, !.err = "AuthenticationError"]
  ELSE [st EXCEPT !.io = @ \cup {"token_request"}, !.ret = None,
                  !.credentials = {DeviceCredential(The(st.flow))}]

DeviceAuthBody(st, status_ok) == DeviceToken(GetDeviceCode(DeviceSetup(st)), status_ok)

ServiceCredential(sub) == Credential(None, None, {}, sub)

\* `if set(self.SERVICE_CONFIGS_LIST) - set(self.client_config)`
ServiceConfigMissing(st) == \E i \in DOMAIN st.scl : ~Has(st.client_config, st.scl[i])

\* the constructor ServiceAuth builds the credential with
KeySource(cfg) ==
  IF Truthy(cfg, "client_json_dict") \/ Truthy(cfg, "client_json")
    THEN "from_json_keyfile_dict"
  ELSE IF Truthy(cfg, "client_json_file_path") THEN "from_json_keyfile_name"
  ELSE IF Has(cfg, "client_service_email") /\ Has(cfg, "client_pkcs12_file_path")
    THEN "from_p12_keyfile"
  ELSE "KeyError"

\* the calls it makes on the key material
KeyCalls(cfg) ==
  IF ~Truthy(cfg, "client_json_dict") /\ Truthy(cfg, "client_json")
  THEN {"json.loads", KeySource(cfg)}
  ELSE {KeySource(cfg)}

\* ServiceAuth after its configuration is loaded
MakeServiceCredential(st) ==
  IF Failed(st) THEN st
  ELSE IF KeySource(st.client_config) = "KeyError" THEN Raise(st, "KeyError")
  ELSE [st EXCEPT
          !.io = @ \cup KeyCalls(st.client_config),
          !.credentials =
             {ServiceCredential(IF Truthy(st.client_config, "client_user_email")
                                THEN "client_user_email" ELSE None)}]

ServiceAuthBody(st) ==
  IF Failed(st) THEN st
  ELSE IF ServiceConfigMissing(st) THEN MakeServiceCredential(LoadServiceConfigSettings(st))
  ELSE MakeServiceCredential(st)

(***************************************************************************)
(* The decorators CheckAuth and CheckServiceAuth.  The locals dirty and    *)
(* code of _decorated are the fields dirty and code of the record.         *)
(***************************************************************************)
\* slip: the save_credentials test left out
NeedsLoad_unconditional(creds, save_credentials) == creds = {}

\* `self.credentials is None and save_credentials`
NeedsLoad(creds, save_credentials) == creds = {} /\ save_credentials

\* `dirty and save_credentials`
NeedsSave(dirty, save_credentials) == dirty /\ save_credentials

LoadIfNeeded(st, oserror) ==
  IF NeedsLoad(st.credentials, settings.save_credentials)
  THEN LoadCredentials(st, None, oserror) ELSE st

\* self.credentials.set_store(self._default_storage)
BindDefault(st) ==
  IF Failed(st) THEN st
  ELSE IF st.credentials = {} THEN Raise(st, "AttributeError")
  ELSE [st EXCEPT !.credentials = {set_store(The(st.credentials), st.default_storage)}]

SaveIfNeeded(st, oserror) ==
  IF Failed(st) THEN st
  ELSE IF NeedsSave(st.dirty, settings.save_credentials)
    THEN SaveCredentials(st, None, oserror) ELSE st

\* the decoratee runs: no credential, or an expired one without refresh token
RunsFlow(creds, t) ==
  \/ creds = {}
  \/ access_token_expired(creds, t) /\ The(creds).refresh_token = None

\* Refresh runs instead: an expired credential with a refresh token
RunsRefresh(creds, t) ==
  /\ creds # {}
  /\ access_token_expired(creds, t)
  /\ The(creds).refresh_token # None

\* decoratee(self, *args, **kwargs)
Decoratee(st, method, in) ==
  IF method = "LocalWebserverAuth"
    THEN LocalWebserverAuthBody(st, in.port_numbers, in.free, in.query)
  ELSE IF method = "CommandLineAuth" THEN CommandLineAuthBody(st, in.typed)
  ELSE IF method = "DeviceAuth" THEN DeviceAuthBody(st, in.status_ok)
  ELSE ServiceAuthBody(st)

\* `code = decoratee(...)` and `dirty = True`
Dirty(st) == IF Failed(st) THEN st ELSE [st EXCEPT !.dirty = TRUE]
CodeOf(st) == IF Failed(st) THEN st ELSE [st EXCEPT !.code = st.ret, !.dirty = TRUE]

\* slip: a refresh the remote rejects is followed by the decoratee
FlowOrRefresh_fallback(st, method, in) ==
  IF Failed(st) THEN st
  ELSE IF RunsFlow(st.credentials, now) THEN CodeOf(Decoratee(st, method, in))
  ELSE IF RunsRefresh(st.credentials, now) /\ ~in.refresh_ok
    THEN CodeOf(Decoratee([Refresh(st, FALSE) EXCEPT !.err = NoErr], method, in))
  ELSE IF RunsRefresh(st.credentials, now) THEN Dirty(Refresh(st, in.refresh_ok))
  ELSE st

\* lines 131-140 of CheckAuth._decorated
FlowOrRefresh(st, method, in) ==
  IF Failed(st) THEN st
  ELSE IF RunsFlow(st.credentials, now) THEN CodeOf(Decoratee(st, method, in))
  ELSE IF RunsRefresh(st.credentials, now) THEN Dirty(Refresh(st, in.refresh_ok))
  ELSE st

\* `if code is not None: self.Auth(code)`
AuthIfCode(st, exchange_ok) ==
  IF Failed(st) THEN st
  ELSE IF st.code # None THEN Auth(st, st.code, exchange_ok)
  ELSE st

\* what the decorated method returns: _decorated has no return statement
Returned(st) == [st EXCEPT !.ret = None]

CheckAuth(st, method, in) ==
  Returned(
    SaveIfNeeded(
      BindDefault(
        AuthIfCode(
          FlowOrRefresh(EnsureFlow(LoadIfNeeded(st, in.oserror)), method, in),
          in.exchange_ok)),
      in.oserror))

\* lines 105-111 of CheckServiceAuth._decorated
ServiceOrRefresh(st, in) ==
  IF Failed(st) THEN st
  ELSE IF st.credentials = {} THEN Dirty(Authorize(Decoratee(st, "ServiceAuth", in)))
  ELSE IF access_token_expired(st.credentials, now) THEN Dirty(Refresh(st, in.refresh_ok))
  ELSE st

SetServiceMethod(st) == [st EXCEPT !.auth_method = "service"]

CheckServiceAuth(st, in) ==
  Returned(
    SaveIfNeeded(
      BindDefault(ServiceOrRefresh(LoadIfNeeded(SetServiceMethod(st), in.oserror), in)),
      in.oserror))

LocalWebserverAuth(st, in) == CheckAuth(st, "LocalWebserverAuth", in)
CommandLineAuth(st, in) == CheckAuth(st, "CommandLineAuth", in)
DeviceAuth(st, in) == CheckAuth(st, "DeviceAuth", in)
ServiceAuth(st, in) == CheckServiceAuth(st, in)

(***************************************************************************)
(* Settings, client-secrets files and persisted credentials the model      *)
(* starts from.                                                            *)
(***************************************************************************)
AllAbsent(keys) == [k \in keys |-> Absent]
AllPresent(keys) == [k \in keys |-> Present]

DEFAULT_SETTINGS ==
  [save_credentials |-> FALSE, save_credentials_backend |-> None,
   save_credentials_file |-> None, save_credentials_dict |-> None,
   save_credentials_key |-> None,
   client_config_backend |-> "file",
   client_config |-> AllAbsent(ClientKeys),
   service_config |-> AllAbsent(ServiceKeys),
   get_refresh_token |-> FALSE]

\* the persistence part of the settings
PersistenceSettings ==
  {[save_credentials |-> sc, save_credentials_backend |-> b, save_credentials_file |-> f,
    save_credentials_dict |-> d, save_credentials_key |-> k] :
     sc \in BOOLEAN, b \in {None, "file", "dictionary", "redis", "ftp"},
     f \in {None, "credentials.json"}, d \in {None, "dict"}, k \in {None, "key"}}

\* only the parameters of the configured backend vary
PersistenceChoices ==
  {p \in PersistenceSettings :
     /\ p.save_credentials_backend \in {"dictionary", "redis"} => p.save_credentials
     /\ p.save_credentials_backend # "file" => p.save_credentials_file = None
     /\ p.save_credentials_backend # "dictionary" =>
          p.save_credentials_dict = None /\ p.save_credentials_key = None}

WithPersistence(s, p) ==
  [s EXCEPT !.save_credentials = p.save_credentials,
            !.save_credentials_backend = p.save_credentials_backend,
            !.save_credentials_file = p.save_credentials_file,
            !.save_credentials_dict = p.save_credentials_dict,
            !.save_credentials_key = p.save_credentials_key]

GoodSecrets ==
  [malformed |-> FALSE, client_type |-> "web", info |-> AllPresent(SecretsKeys)]

\* a well-formed client-secrets file, or one with one defect
SecretsFiles ==
  {GoodSecrets, [GoodSecrets EXCEPT !.malformed = TRUE]}
  \cup {[GoodSecrets EXCEPT !.client_type = t] : t \in {"installed", "service_account"}}
  \cup {[GoodSecrets EXCEPT !.info[k] = Absent] : k \in SecretsKeys}
  \cup {[GoodSecrets EXCEPT !.info["redirect_uris"] = Empty]}

\* settings["client_config"]: complete, or lacking one field, or revoke_uri: None
ClientConfigSettings ==
  {AllPresent(ClientKeys), [AllPresent(ClientKeys) EXCEPT !["revoke_uri"] = Empty]}
  \cup {[AllPresent(ClientKeys) EXCEPT ![k] = Absent] : k \in ClientKeys}

\* settings["service_config"]: at most two kinds of key material; the service email
\* varies where a PKCS12 file is configured
ServiceConfigSettings ==
  {sc \in [ServiceKeys -> {Absent, Empty, Present}] :
     /\ \A k \in Range(ServiceKeyConfigs) \cup {"client_service_email"} : sc[k] # Empty
     /\ Cardinality({k \in Range(ServiceKeyConfigs) : sc[k] = Present}) <= 2
     /\ sc["client_json_file_path"] = Present => sc["client_json"] = Absent
     /\ sc["client_pkcs12_file_path"] = Present => sc["client_json_dict"] = Absent
     /\ sc["client_service_email"] = Present => sc["client_pkcs12_file_path"] = Present}

\* credentials an earlier run left in a storage backend, with the given expiries
PersistedCredentials(expiries) ==
  {to_json(Credential(TokenAt(0), rt, {e}, None)) : rt \in {None, "rt"}, e \in expiries}

InitialStored(storages, expiries) ==
  {f \in [StorageIds -> {{}} \cup {{j} : j \in PersistedCredentials(expiries)}] :
     \A id \in StorageIds :
       (id = "file:other" \/ storages[id] \in {None, Absent}) => f[id] = {}}

InitWith(SettingsSet, SecretsSet, expiries) ==
  /\ settings \in SettingsSet
  /\ client_secrets \in SecretsSet
  /\ LET made == InitializeStoragesFromSettings(settings)
     IN  /\ _storages = made.storages
         /\ _default_storage = made.default
         /\ lastErr = made.err
         /\ stored \in InitialStored(made.storages, expiries)
  /\ client_config = EmptyConfig
  /\ flow = {}
  /\ credentials = {}
  /\ http = None
  /\ service = None
  /\ auth_method = None
  /\ SERVICE_CONFIGS_LIST = SERVICE_CONFIGS_LIST_initial
  /\ now = 0
  /\ lastOp = "__init__"
  /\ lastArg = {}
  /\ lastRet = None
  /\ lastIO = {}
  /\ savedTo = {}
  /\ obj_http = None
  /\ thread_local = [t \in Threads |-> None]
  /\ pc = [t \in Threads |-> "idle"]
  /\ param = [t \in Threads |-> None]
  /\ used = [t \in Threads |-> None]

\* __init__ raised: there is no object to call
Constructed == ~(lastOp = "__init__" /\ lastErr # NoErr)

(***************************************************************************)
(* One action per public method.                                           *)
(***************************************************************************)
\* record r is the object after call op(arg)
Assign(r, op, arg) ==
  /\ Len(r.scl) <= Len(SERVICE_CONFIGS_LIST_initial) + MaxServiceList
  /\ client_config' = r.client_config
  /\ flow' = r.flow
  /\ credentials' = r.credentials
  /\ http' = r.http
  /\ service' = r.service
  /\ auth_method' = r.auth_method
  /\ _default_storage' = r.default_storage
  /\ SERVICE_CONFIGS_LIST' = r.scl
  /\ stored' = r.stored
  /\ lastOp' = op
  /\ lastArg' = arg
  /\ lastErr' = r.err
  /\ lastRet' = r.ret
  /\ lastIO' = r.io
  /\ savedTo' = IF lastOp = "SaveCredentials" /\ lastErr = NoErr THEN {lastArg} ELSE {}
  /\ UNCHANGED <<settings, client_secrets, _storages, now>>

\* no thread is inside a guarded call
Quiet == \A t \in Threads : pc[t] = "idle"

\* a call made directly on the GoogleAuth object
Commit(r, op, arg) ==
  /\ Constructed
  /\ auth
  /\ Quiet
  /\ Assign(r, op, arg)
  /\ UNCHANGED guardVars

\* what the environment does to one call: nothing, an OSError from the credentials
\* file, the remote rejecting the refresh, the code exchange or the device grant
Outcomes == {"ok", "oserror", "refresh_rejected", "exchange_rejected", "status_rejected"}

Queries ==
  {{}, {<<"error", "access_denied">>}, {<<"code", "abc123">>},
   {<<"error", "access_denied">>, <<"code", "abc123">>}}

\* the candidate ports (port_numbers), the ports that bind, the redirect's query
AllPorts == Range(DefaultPorts)

LocalInputs ==
  {[port_numbers |-> {}, free |-> AllPorts, query |-> q] : q \in Queries}

Backends == {None, "file", "dictionary", "redis", "ftp"}

\* the environment's part of a call: outcome `out` of Outcomes
Env(out) ==
  [oserror |-> out = "oserror", refresh_ok |-> out # "refresh_rejected",
   exchange_ok |-> out # "exchange_rejected", status_ok |-> out # "status_rejected"]

\* record r extended with the fields of record e
With(r, e) ==
  [k \in DOMAIN r \cup DOMAIN e |-> IF k \in DOMAIN r THEN r[k] ELSE e[k]]

DoLocalWebserverAuth ==
  \E in \in LocalInputs, out \in Outcomes \ {"status_rejected"} :
    Commit(LocalWebserverAuth(Self, With(in, Env(out))), "LocalWebserverAuth", in.query)

DoCommandLineAuth ==
  \E typed \in {"abc123"}, out \in Outcomes \ {"status_rejected"} :
    Commit(CommandLineAuth(Self, With([typed |-> typed], Env(out))),
           "CommandLineAuth", {<<"code", typed>>})

DoDeviceAuth ==
  \E out \in Outcomes \ {"exchange_rejected"} :
    Commit(DeviceAuth(Self, Env(out)), "DeviceAuth", {})

DoServiceAuth ==
  \E out \in {"ok", "oserror", "refresh_rejected"} :
    Commit(ServiceAuth(Self, Env(out)), "ServiceAuth", {})

DoLoadCredentials ==
  \E backend \in Backends, oserror \in BOOLEAN :
    Commit(LoadCredentials(Self, backend, oserror), "LoadCredentials",
           {<<"backend", backend>>})

DoLoadCredentialsFile ==
  \E credentials_file \in {None, "other.json"}, oserror \in BOOLEAN :
    Commit(LoadCredentialsFile(Self, credentials_file, oserror), "LoadCredentialsFile",
           {<<"credentials_file", credentials_file>>})

DoSaveCredentials ==
  \E backend \in Backends, oserror \in BOOLEAN :
    Commit(SaveCredentials(Self, backend, oserror), "SaveCredentials",
           {<<"backend", backend>>})

DoSaveCredentialsFile ==
  \E credentials_file \in {None, "other.json"}, oserror \in BOOLEAN :
    Commit(SaveCredentialsFile(Self, credentials_file, oserror), "SaveCredentialsFile",
           {<<"credentials_file", credentials_file>>})

DoLoadClientConfig ==
  \E backend \in {None, "file", "settings", "service", "ldap"} :
    Commit(LoadClientConfig(Self, backend), "LoadClientConfig", {<<"backend", backend>>})

DoLoadClientConfigFile == Commit(LoadClientConfigFile(Self), "LoadClientConfigFile", {})

DoLoadClientConfigSettings ==
  Commit(LoadClientConfigSettings(Self), "LoadClientConfigSettings", {})

DoLoadServiceConfigSettings ==
  Commit(LoadServiceConfigSettings(Self), "LoadServiceConfigSettings", {})

\* the settings["service_config"] of other GoogleAuth instances of the process
OtherServiceConfigs ==
  {sc \in ServiceConfigSettings :
     /\ sc["client_user_email"] = Present
     /\ \/ /\ sc["client_pkcs12_file_path"] = Present
           /\ sc["client_json_file_path"] = Absent
           /\ sc["client_json"] = Absent
           /\ sc["client_service_email"] = Present
        \/ /\ sc["client_json_dict"] = Present
           /\ sc["client_json_file_path"] = Absent
           /\ sc["client_json"] = Absent}

\* a mapping as a set of <<key, value>> pairs
Pairs(m) == {<<k, m[k]>> : k \in DOMAIN m}

\* LoadServiceConfigSettings called on another, newly built instance: the two instances
\* have the class attribute SERVICE_CONFIGS_LIST in common and nothing else
DoLoadServiceConfigSettingsElsewhere ==
  \E sc \in OtherServiceConfigs :
    LET r == LoadServiceConfigSettingsWith([Self EXCEPT !.client_config = EmptyConfig], sc)
    IN  Commit([Self EXCEPT !.scl = r.scl, !.err = r.err],
               "LoadServiceConfigSettings elsewhere", Pairs(sc))

DoGetFlow == Commit(GetFlow(Self), "GetFlow", {})

DoRefresh ==
  \E accepted \in BOOLEAN : Commit(Refresh(Self, accepted), "Refresh", {})

DoAuthorize == Commit(Authorize(Self), "Authorize", {})

\* the authorization codes a caller passes
Codes == {"abc123", "xyz789"}

DoAuthenticate ==
  \E code \in Codes, accepted \in BOOLEAN :
    Commit(Authenticate(Self, code, accepted), "Authenticate", {<<"code", code>>})

DoAuth ==
  \E code \in Codes, accepted \in BOOLEAN :
    Commit(Auth(Self, code, accepted), "Auth", {<<"code", code>>})

\* reading the property access_token_expired
DoAccessTokenExpired ==
  Commit([Self EXCEPT !.ret = ToString(access_token_expired(credentials, now))],
         "access_token_expired", {})

\* time passes between calls
Tick ==
  /\ Constructed
  /\ Quiet
  /\ now < MaxTime
  /\ now' = now + 1
  /\ lastOp' = "Tick"
  /\ lastArg' = {}
  /\ lastErr' = NoErr
  /\ lastRet' = None
  /\ lastIO' = {}
  /\ savedTo' = {}
  /\ UNCHANGED <<settings, client_secrets, client_config, flow, credentials, http, service,
                 auth_method, _storages, _default_storage, SERVICE_CONFIGS_LIST, stored>>
  /\ UNCHANGED guardVars

Next ==
  \/ DoLocalWebserverAuth
  \/ DoCommandLineAuth
  \/ DoDeviceAuth
  \/ DoServiceAuth
  \/ DoGetFlow
  \/ DoRefresh
  \/ DoAuthorize
  \/ DoAuthenticate
  \/ DoAuth
  \/ DoAccessTokenExpired
  \/ Tick

\* client settings of the credential lifecycle: an OAuth client, with and without
\* offline access, and a service account
OAuthSettings(offline) ==
  [DEFAULT_SETTINGS EXCEPT !.client_config_backend = "settings",
                           !.client_config = AllPresent(ClientKeys),
                           !.get_refresh_token = offline]

ServiceSettings ==
  [DEFAULT_SETTINGS EXCEPT
     !.client_config_backend = "service",
     !.service_config = [AllAbsent(ServiceKeys) EXCEPT !["client_json_dict"] = Present,
                                                      !["client_user_email"] = Empty]]

\* persistence settings by what they configure
Persisting(save, backends) ==
  {p \in PersistenceChoices :
     p.save_credentials = save /\ p.save_credentials_backend \in backends}

\* settings __init__ accepts
Accepted(p) == InitializeStoragesFromSettings(p).err = NoErr

LifecycleSettings ==
  {WithPersistence(OAuthSettings(TRUE), p) :
     p \in Persisting(FALSE, {None, "file", "ftp"})
             \cup Persisting(TRUE, {None, "file", "dictionary", "ftp"})}
  \cup {WithPersistence(c, p) :
          c \in {OAuthSettings(FALSE), ServiceSettings},
          p \in {q \in Persisting(FALSE, {None}) \cup Persisting(TRUE, {"file"}) :
                   Accepted(q)}}

Init == InitWith(LifecycleSettings, {GoodSecrets}, {TokenLife}) /\ auth = TRUE

Spec == Init /\ [][Next]_vars

(***************************************************************************)
(* Configuration loading: every client configuration, few lifecycles.      *)
(***************************************************************************)
NextConfig ==
  \/ DoLoadClientConfig
  \/ DoLoadClientConfigFile
  \/ DoLoadClientConfigSettings
  \/ DoLoadServiceConfigSettings
  \/ DoLoadServiceConfigSettingsElsewhere
  \/ DoGetFlow
  \/ DoDeviceAuth
  \/ DoServiceAuth

\* the client part of the settings: one backend, its source complete or defective
ClientChoices ==
  {[DEFAULT_SETTINGS EXCEPT !.client_config_backend = b] : b \in {"file", None, "ldap"}}
  \cup {[DEFAULT_SETTINGS EXCEPT !.client_config_backend = "settings",
                                 !.client_config = c] : c \in ClientConfigSettings}
  \cup {[DEFAULT_SETTINGS EXCEPT !.client_config_backend = "service",
                                 !.service_config = c] : c \in ServiceConfigSettings}

\* the choices that also run with credentials persisted by an earlier run
PersistedClientChoices ==
  {c \in ClientChoices :
     /\ c.client_config \in
          {AllAbsent(ClientKeys), AllPresent(ClientKeys),
           [AllPresent(ClientKeys) EXCEPT !["client_id"] = Absent]}
     /\ c.service_config \in {AllAbsent(ServiceKeys), ServiceSettings.service_config}}

ConfigSettings ==
  {WithPersistence(c, p) : c \in ClientChoices, p \in Persisting(FALSE, {None})}
  \cup {WithPersistence(c, p) :
          c \in PersistedClientChoices,
          p \in {q \in Persisting(TRUE, {"file"}) : Accepted(q)}}

\* the client-secrets file matters to the file backend only
InitConfig ==
  /\ InitWith(ConfigSettings, SecretsFiles, {0, TokenLife})
  /\ settings.client_config_backend # "file" => client_secrets = GoodSecrets
  /\ settings.save_credentials =>
       \A k \in SecretsKeys \ {"client_id"} : client_secrets.info[k] = Present
  /\ auth = TRUE

SpecConfig == InitConfig /\ [][NextConfig]_vars

(***************************************************************************)
(* Credential persistence: the three backends and explicit files.          *)
(***************************************************************************)
NextStore ==
  \/ DoLoadCredentials
  \/ DoLoadCredentialsFile
  \/ DoSaveCredentials
  \/ DoSaveCredentialsFile
  \/ DoCommandLineAuth
  \/ Tick

StoreSettings ==
  {WithPersistence(OAuthSettings(TRUE), p) :
     p \in {q \in Persisting(FALSE, {None, "file"})
                    \cup Persisting(TRUE, {"file", "dictionary", "redis"}) : Accepted(q)}}

InitStore == InitWith(StoreSettings, {GoodSecrets}, {TokenLife}) /\ auth = TRUE

SpecStore == InitStore /\ [][NextStore]_vars

(***************************************************************************)
(* The decorator LoadAuth on a method of an object holding self.auth and   *)
(* self.http, called by several threads.  A thread goes from "idle" to     *)
(* "checked" (lines 58-70 done), "bound" (self.http assigned), "body" (the *)
(* decoratee runs) and back.                                               *)
(***************************************************************************)
\* slip: the interactive flow whatever the auth_method
RenewalMethod_always_local(method) == "LocalWebserverAuth"

\* the method LoadAuth renews the credential with
RenewalMethod(method) == IF method = "service" THEN "ServiceAuth" ELSE "LocalWebserverAuth"

\* `if self.auth.access_token_expired:` and the renewal
Renew(st, in) ==
  IF ~access_token_expired(st.credentials, now) THEN st
  ELSE IF RenewalMethod(st.auth_method) = "ServiceAuth" THEN ServiceAuth(st, in)
  ELSE LocalWebserverAuth(st, in)

\* `if self.auth.service is None: self.auth.Authorize()`
AuthorizeIfNeeded(st) ==
  IF Failed(st) THEN st
  ELSE IF st.service = None THEN Authorize(st)
  ELSE st

\* LoadAuth._decorated up to the choice of the transport
LoadAuthCheck(st, in) == AuthorizeIfNeeded(Renew(st, in))

\* what the call renewed the credential with, as recorded in lastArg
Renewal(creds, method) ==
  IF access_token_expired(creds, now) THEN {<<"renew", RenewalMethod(method)>>} ELSE {}

\* the transport Get_Http_Object makes when thread t calls it
TransportOf(t) == "http:" \o t

\* Get_Http_Object raises when self.credentials is None
GetHttpFails(creds) == creds = {}

\* the explicit transport a caller may pass in kwargs["param"]["http"]
Params == {None, "caller"}

GuardCheck(t) ==
  /\ Constructed
  /\ pc[t] = "idle"
  /\ \E explicit \in Params, in \in LocalInputs, out \in Outcomes \ {"status_rejected"} :
       /\ Assign(LoadAuthCheck(Self, With(in, Env(out))), "LoadAuth",
                 Renewal(credentials, auth_method))
       /\ pc' = [pc EXCEPT ![t] = IF lastErr' = NoErr THEN "checked" ELSE "idle"]
       /\ param' = [param EXCEPT ![t] = IF lastErr' = NoErr THEN explicit ELSE None]
  /\ auth' = TRUE
  /\ UNCHANGED <<obj_http, thread_local, used>>

\* the attributes of self.auth and the record of its last call stay as they are
AuthUnchanged ==
  UNCHANGED <<settings, client_secrets, client_config, flow, credentials, http, service,
              auth_method, _storages, _default_storage, SERVICE_CONFIGS_LIST, stored, now,
              lastOp, lastArg, lastErr, lastRet, lastIO, savedTo, auth>>

\* lines 72-90: the explicit transport, or the one of the thread
GuardTransport(t) ==
  /\ pc[t] = "checked"
  /\ IF param[t] # None
       THEN /\ obj_http' = param[t]
            /\ param' = [param EXCEPT ![t] = Absent]
            /\ pc' = [pc EXCEPT ![t] = "bound"]
            /\ UNCHANGED thread_local
     ELSE IF thread_local[t] # None
       THEN /\ obj_http' = thread_local[t]
            /\ pc' = [pc EXCEPT ![t] = "bound"]
            /\ UNCHANGED <<thread_local, param>>
     ELSE IF GetHttpFails(credentials)
       THEN /\ pc' = [pc EXCEPT ![t] = "idle"]
            /\ UNCHANGED <<obj_http, thread_local, param>>
     ELSE /\ thread_local' = [thread_local EXCEPT ![t] = TransportOf(t)]
          /\ obj_http' = TransportOf(t)
          /\ pc' = [pc EXCEPT ![t] = "bound"]
          /\ UNCHANGED param
  /\ UNCHANGED used
  /\ AuthUnchanged

\* `return decoratee(self, *args, **kwargs)`: the body takes self.http
GuardBody(t) ==
  /\ pc[t] = "bound"
  /\ pc' = [pc EXCEPT ![t] = "body"]
  /\ used' = [used EXCEPT ![t] = obj_http]
  /\ UNCHANGED <<obj_http, thread_local, param>>
  /\ AuthUnchanged

\* the decoratee returns
GuardReturn(t) ==
  /\ pc[t] = "body"
  /\ pc' = [pc EXCEPT ![t] = "idle"]
  /\ used' = [used EXCEPT ![t] = None]
  /\ param' = [param EXCEPT ![t] = None]
  /\ UNCHANGED <<obj_http, thread_local>>
  /\ AuthUnchanged

DoGuardCheck == \E t \in Threads : GuardCheck(t)
DoGuardTransport == \E t \in Threads : GuardTransport(t)
DoGuardBody == \E t \in Threads : GuardBody(t)
DoGuardReturn == \E t \in Threads : GuardReturn(t)

NextGuard ==
  \/ DoGuardCheck
  \/ DoGuardTransport
  \/ DoGuardBody
  \/ DoGuardReturn
  \/ DoServiceAuth
  \/ DoRefresh
  \/ Tick

GuardSettings ==
  {WithPersistence(c, p) :
     c \in {OAuthSettings(FALSE), ServiceSettings}, p \in Persisting(FALSE, {None})}
  \cup {WithPersistence(OAuthSettings(TRUE), p) :
          p \in {q \in Persisting(FALSE, {None}) \cup Persisting(TRUE, {"file"}) :
                   Accepted(q)}}

\* the guarded object is built with or without an auth
InitGuard == InitWith(GuardSettings, {GoodSecrets}, {TokenLife}) /\ auth \in BOOLEAN

SpecGuard == InitGuard /\ [][NextGuard]_vars

(***************************************************************************)
(* Properties of the credential lifecycle, checked under Spec.             *)
(***************************************************************************)
AuthMethods == {"LocalWebserverAuth", "CommandLineAuth", "DeviceAuth", "ServiceAuth"}

\* the held credential is expired: its expiry is at or before the current time
HeldExpired == credentials # {} /\ \E e \in The(credentials).token_expiry : e <= now

\* C1: with save_credentials false, no call of LocalWebserverAuth, CommandLineAuth,
\* DeviceAuth or ServiceAuth, succeeding or failing, invokes get() or put() of a
\* storage backend.
C1_NoStorageWithoutSave ==
  (lastOp \in AuthMethods /\ ~settings.save_credentials)
    => lastIO \cap {"get", "put"} = {}

\* a credential was obtained by the web-server flow with a file backend configured,
\* holding a persisted credential, and save_credentials false
C1_Witness ==
  /\ lastOp = "LocalWebserverAuth"
  /\ lastErr = NoErr
  /\ "exchange" \in lastIO
  /\ ~settings.save_credentials
  /\ settings.save_credentials_backend = "file"
  /\ stored["file"] # {}

\* C2: Authorize() called while no credential is held or the held credential is
\* expired raises AuthenticationError and leaves http and service unchanged.
C2_AuthorizeExpiredFails ==
  [][(lastOp' = "Authorize" /\ (credentials = {} \/ HeldExpired))
       => (lastErr' = "AuthenticationError" /\ http' = http /\ service' = service)]_vars

\* Authorize was refused for a held, expired credential after the service was built
C2_Witness ==
  /\ lastOp = "Authorize"
  /\ lastErr = "AuthenticationError"
  /\ HeldExpired
  /\ service = "built"

\* C3: Refresh() raises RefreshError, makes no refresh call and leaves the credential
\* unchanged when no credential is held or the held one has no refresh token and
\* auth_method is not "service"; with auth_method "service" the refresh call is made
\* for a credential without refresh token.
C3_RefreshRejections ==
  [][lastOp' = "Refresh" =>
       /\ (credentials = {}
            \/ (The(credentials).refresh_token = None /\ auth_method # "service"))
          => /\ lastErr' = "RefreshError"
             /\ "refresh" \notin lastIO'
             /\ credentials' = credentials
       /\ (credentials # {} /\ The(credentials).refresh_token = None
            /\ auth_method = "service")
          => /\ "refresh" \in lastIO'
             /\ lastErr' = NoErr =>
                  The(credentials').token_expiry = {now + TokenLife}]_vars

\* a service-account credential, which has no refresh token, was refreshed
C3_Witness ==
  /\ lastOp = "Refresh"
  /\ lastErr = NoErr
  /\ auth_method = "service"
  /\ credentials # {}
  /\ The(credentials).refresh_token = None
  /\ "refresh" \in lastIO

\* C4: access_token_expired is true when no credential is held, and for a held
\* credential exactly when its expiry is at or before the current time.
C4_AccessTokenExpired ==
  lastOp = "access_token_expired"
    => (lastRet = "TRUE" <=> (credentials = {} \/ HeldExpired))

\* the property was read as true for a held credential
C4_Witness ==
  /\ lastOp = "access_token_expired"
  /\ lastRet = "TRUE"
  /\ credentials # {}

\* the credential the pre-hook of CheckAuth may have loaded: the content of a storage
LoadedFrom(creds, content) ==
  \E id \in StorageIds :
    /\ content[id] # {}
    /\ creds # {}
    /\ to_json(The(creds)) = The(content[id])
    /\ The(creds).store = id

\* C7: in the local-webserver flow, a redirect whose query has "error" (with or
\* without "code") fails with AuthenticationRejected, one with neither fails with
\* AuthenticationError; in both cases no code is exchanged, nothing is persisted and
\* the held credential is not set (it is the one held before, or the one the
\* pre-hook loaded).
C7_RedirectFailures ==
  [][(lastOp' = "LocalWebserverAuth" /\ "handle_request" \in lastIO') =>
       /\ QueryHas(lastArg', "error") => lastErr' = "AuthenticationRejected"
       /\ (~QueryHas(lastArg', "error") /\ ~QueryHas(lastArg', "code"))
            => lastErr' = "AuthenticationError"
       /\ (QueryHas(lastArg', "error") \/ ~QueryHas(lastArg', "code"))
            => /\ "exchange" \notin lastIO'
               /\ "put" \notin lastIO'
               /\ stored' = stored
               /\ \/ credentials' = credentials
                  \/ credentials = {} /\ LoadedFrom(credentials', stored)]_vars

\* a redirect carrying both error and code was rejected
C7_Witness ==
  /\ lastOp = "LocalWebserverAuth"
  /\ "handle_request" \in lastIO
  /\ QueryHas(lastArg, "error")
  /\ QueryHas(lastArg, "code")
  /\ lastErr = "AuthenticationRejected"

\* C8: a call of LocalWebserverAuth whose redirect carries code = c and no error
\* returns c to its caller.
C8_ReturnsCode ==
  (/\ lastOp = "LocalWebserverAuth"
   /\ lastErr = NoErr
   /\ "handle_request" \in lastIO
   /\ QueryHas(lastArg, "code")
   /\ ~QueryHas(lastArg, "error"))
    => lastRet = QueryGet(lastArg, "code")

\* C15: in every reachable state in which a credential obtained through an
\* authorization operation is held, it is bound to a storage backend, never to none,
\* whatever the settings.
C15_AlwaysBound ==
  credentials # {} => The(credentials).store \in StorageIds

\* the last call exchanged an authorization code
ExchangedCode == lastOp \in {"Authenticate", "Auth"} /\ "exchange" \in lastIO

\* C16: the same Flow object is never used to exchange two different authorization
\* codes: the exchange after an exchange of another code uses a newly built Flow.
C16_FlowNotReused ==
  [][(ExchangedCode /\ ExchangedCode' /\ lastArg' # lastArg)
       => "OAuth2WebServerFlow" \in lastIO']_vars

(***************************************************************************)
(* Properties of configuration loading, checked under SpecConfig.          *)
(***************************************************************************)
\* the constructors of a service-account credential
KeyConstructors == {"from_json_keyfile_dict", "from_json_keyfile_name", "from_p12_keyfile"}

\* C5: when the service settings configure both client_json_dict and
\* client_json_file_path, ServiceAuth builds the credential from the dict and does
\* not read the key file.
C5_DictBeforeFile ==
  (/\ lastOp = "ServiceAuth"
   /\ Truthy(settings.service_config, "client_json_dict")
   /\ Truthy(settings.service_config, "client_json_file_path")
   /\ lastIO \cap KeyConstructors # {})
    => /\ "from_json_keyfile_dict" \in lastIO
       /\ "from_json_keyfile_name" \notin lastIO

\* the content of the client-secrets file does not provide what the loader requires
SecretsDefective ==
  \/ client_secrets.client_type \notin {"web", "installed"}
  \/ \E i \in DOMAIN ClientSecretsRequired :
       ~Has(client_secrets.info, ClientSecretsRequired[i])
  \/ client_secrets.info["redirect_uris"] \in {Absent, Empty}

\* C6: LoadClientConfigFile fails with InvalidConfigError for a client type other than
\* web or installed, for a content lacking client_id, client_secret, auth_uri or
\* token_uri, and for one without a redirect URI (redirect_uris absent or empty);
\* absence of revoke_uri or client_email causes no failure.
C6_InvalidFileRejected ==
  lastOp = "LoadClientConfigFile" =>
    /\ SecretsDefective => lastErr = "InvalidConfigError"
    /\ (~SecretsDefective /\ ~client_secrets.malformed) => lastErr = NoErr

\* a client_id can be resolved: the client configuration holds one, or the configured
\* source provides one
ClientIdResolvable ==
  \/ Truthy(client_config, "client_id")
  \/ /\ settings.client_config_backend = "file"
     /\ ~client_secrets.malformed
     /\ Has(client_secrets.info, "client_id")
  \/ /\ settings.client_config_backend = "settings"
     /\ Has(settings.client_config, "client_id")

NetworkCalls == {"device_code", "token_request", "refresh"}

\* C9: DeviceAuth called when no client_id is resolvable fails with InvalidConfigError
\* and makes no device-code request, token request or token refresh.
C9_DeviceAuthNeedsClientId ==
  [][(lastOp' = "DeviceAuth" /\ ~ClientIdResolvable)
       => (lastErr' = "InvalidConfigError" /\ lastIO' \cap NetworkCalls = {})]_vars

(***************************************************************************)
(* Properties of credential persistence, checked under SpecStore.          *)
(***************************************************************************)
\* the credentials cs and ds hold equal token bundles
SameBundle(cs, ds) ==
  /\ cs # {}
  /\ ds # {}
  /\ The(cs).access_token = The(ds).access_token
  /\ The(cs).refresh_token = The(ds).refresh_token
  /\ The(cs).token_expiry = The(ds).token_expiry
  /\ The(cs).scopes = The(ds).scopes

InteractiveMethods == {"LocalWebserverAuth", "CommandLineAuth", "DeviceAuth"}

\* the external calls of an interactive flow
InteractiveCalls ==
  {"authorize_url", "handle_request", "device_code", "token_request", "exchange"}

\* the persisted credential the pre-hook of CheckAuth would load, if any
PersistedForHook ==
  IF settings.save_credentials_backend \in {"file", "dictionary", "redis"}
  THEN stored[settings.save_credentials_backend]
  ELSE {}

\* C11: with save_credentials enabled, a successful LocalWebserverAuth, CommandLineAuth
\* or DeviceAuth that obtained a new credential or refreshed ends with the held
\* credential bound to the default store and that store holding a credential equal to
\* it; a call that finds a persisted, non-expired credential runs no interactive flow
\* and makes no put.
C11_PersistedAfterAuth ==
  [][(lastOp' \in InteractiveMethods /\ lastErr' = NoErr /\ settings.save_credentials) =>
       /\ lastIO' \cap {"exchange", "token_request", "refresh"} # {}
            => /\ credentials' # {}
               /\ The(credentials').store = _default_storage'
               /\ _default_storage' \in StorageIds
               /\ stored'[_default_storage'] = {to_json(The(credentials'))}
       /\ (/\ credentials = {}
           /\ PersistedForHook # {}
           /\ \A e \in The(PersistedForHook).token_expiry : e > now)
            => lastIO' \cap (InteractiveCalls \cup {"put"}) = {}]_vars


\* the last call was a save without an explicit target
SavedWithoutTarget ==
  \/ lastOp = "SaveCredentials" /\ lastArg = {<<"backend", None>>}
  \/ lastOp = "SaveCredentialsFile" /\ lastArg = {<<"credentials_file", None>>}

\* C14: after any sequence of load, save and authorization operations, SaveCredentials()
\* or SaveCredentialsFile() without a file argument writes to the store the held
\* credential is bound to.
C14_SaveToBoundStore ==
  [][(SavedWithoutTarget' /\ lastErr' = NoErr /\ "put" \in lastIO') =>
       /\ credentials # {}
       /\ The(credentials).store \in StorageIds
       /\ stored'[The(credentials).store] = {to_json(The(credentials))}
       /\ \A id \in StorageIds \ {The(credentials).store} : stored'[id] = stored[id]]_vars

(***************************************************************************)
(* Properties of the guard LoadAuth, checked under SpecGuard.              *)
(***************************************************************************)
\* thread t starts the body of a guarded operation in this step
BodyStarts(t) == pc[t] = "bound" /\ pc'[t] = "body"

\* thread t passes the checks of the guard in this step
ChecksPass(t) == pc[t] = "idle" /\ pc'[t] = "checked"

C13_OwnTransport ==
  (\A u \in Threads : param[u] = None) =>
    /\ \A t \in Threads :
         pc[t] = "body" => (used[t] = TransportOf(t) /\ used[t] = thread_local[t])
    /\ \A t, u \in Threads : (t # u /\ used[t] # None) => used[t] # used[u]

\* ---------------------------------------------------------------------------
\* The local webserver flow with its candidate ports: an OAuth client, nothing persisted
\* ---------------------------------------------------------------------------

\* port_numbers: None, an empty list, a list in the other order than the default
PortLists == {{}, {<<>>}, {<<8090, 8080>>}}

WebInputs ==
  {[port_numbers |-> p, free |-> f, query |-> q] :
     p \in PortLists, f \in SUBSET AllPorts, q \in {{}, {<<"code", "abc123">>}}}

DoLocalWebserverAuthOn ==
  \E in \in WebInputs, out \in {"ok", "exchange_rejected"} :
    Commit(LocalWebserverAuth(Self, With(in, Env(out))), "LocalWebserverAuth",
           in.query \cup {<<"port_numbers", in.port_numbers>>, <<"free", in.free>>})

NextLocal ==
  \/ DoLocalWebserverAuthOn
  \/ DoGetFlow
  \/ Tick

InitLocal ==
  /\ InitWith({OAuthSettings(offline) : offline \in BOOLEAN}, {GoodSecrets}, {TokenLife})
  /\ auth = TRUE

SpecLocal == InitLocal /\ [][NextLocal]_vars

\* ---------------------------------------------------------------------------
\* Properties of the service configuration
\* ---------------------------------------------------------------------------

\* the key material of a service account, in the order it is looked for
KeyMaterialOrder ==
  <<"client_json_file_path", "client_json_dict", "client_json", "client_pkcs12_file_path">>

\* the first key material the service settings sc hold, as a set of at most one name
FirstPresent(sc) ==
  {KeyMaterialOrder[i] : i \in {j \in DOMAIN KeyMaterialOrder :
      /\ sc[KeyMaterialOrder[j]] = Present
      /\ \A h \in 1..(j - 1) : sc[KeyMaterialOrder[h]] # Present}}

ServiceConfigLoads == {"LoadServiceConfigSettings", "LoadServiceConfigSettings elsewhere"}

\* the service settings of the instance that the call op with argument arg ran on
LoadedSettings(op, arg) ==
  IF op = "LoadServiceConfigSettings" THEN settings.service_config
  ELSE [k \in ServiceKeys |-> CHOOSE v \in {Absent, Empty, Present} : <<k, v>> \in arg]

\* C18: the list of required service fields is one list for all instances; every
\* LoadServiceConfigSettings call that chooses PKCS12 appends client_service_email to
\* it, no other call changes it, and once it was appended a call on any instance that
\* chooses other key material and whose settings lack client_service_email fails with
\* InvalidConfigError.
C18_SharedRequiredList ==
  [][lastOp' \in ServiceConfigLoads =>
       /\ SERVICE_CONFIGS_LIST' =
            IF "client_pkcs12_file_path" \in FirstPresent(LoadedSettings(lastOp', lastArg'))
            THEN Append(SERVICE_CONFIGS_LIST, "client_service_email")
            ELSE SERVICE_CONFIGS_LIST
       /\ (/\ "client_service_email" \in Range(SERVICE_CONFIGS_LIST)
           /\ FirstPresent(LoadedSettings(lastOp', lastArg')) # {}
           /\ "client_pkcs12_file_path" \notin FirstPresent(LoadedSettings(lastOp', lastArg'))
           /\ LoadedSettings(lastOp', lastArg')["client_service_email"] = Absent)
            => lastErr' = "InvalidConfigError"]_vars

\* after two PKCS12 loads, the load of an instance that has a key dict, a user email
\* and no service email fails
C18_Witness ==
  /\ lastOp = "LoadServiceConfigSettings elsewhere"
  /\ lastErr = "InvalidConfigError"
  /\ <<"client_json_dict", Present>> \in lastArg
  /\ <<"client_user_email", Present>> \in lastArg
  /\ <<"client_service_email", Absent>> \in lastArg
  /\ Len(SERVICE_CONFIGS_LIST) = 3

\* ---------------------------------------------------------------------------
\* Properties of the storage backends
\* ---------------------------------------------------------------------------

\* C19: the default storage is selected once, at construction: after any sequence of
\* operations it is still the backend instance selected from the settings, and every
\* backend in use is the one instance of its kind built at construction.
C19_DefaultStorageFixed ==
  /\ _default_storage = InitializeStoragesFromSettings(settings).default
  /\ _default_storage \in {None} \cup {_storages[k] : k \in DOMAIN _storages}
  /\ credentials # {} =>
       The(credentials).store \in {None} \cup {_storages[k] : k \in DOMAIN _storages}

\* ---------------------------------------------------------------------------
\* Properties of a rejected refresh
\* ---------------------------------------------------------------------------

\* C20: when LocalWebserverAuth, CommandLineAuth or DeviceAuth runs with a held or
\* loaded credential that is expired and has a refresh token, and the remote rejects
\* the refresh, the operation fails with RefreshError: no call of an interactive flow
\* is made, the credential is not refreshed by a second attempt, and no backend is
\* written.
C20_RejectedRefreshSurfaces ==
  [][(lastOp' \in InteractiveMethods /\ "AccessTokenRefreshError" \in lastIO') =>
       /\ lastErr' = "RefreshError"
       /\ lastIO' \cap InteractiveCalls = {}
       /\ "put" \notin lastIO'
       /\ stored' = stored
       /\ RunsRefresh(credentials', now')
       /\ credentials # {} => credentials' = credentials]_vars

\* CommandLineAuth ran with the held credential expired, the refresh was rejected
C20_Witness ==
  /\ lastOp = "CommandLineAuth"
  /\ "AccessTokenRefreshError" \in lastIO
  /\ lastErr = "RefreshError"
  /\ RunsRefresh(credentials, now)

\* ---------------------------------------------------------------------------
\* Properties of the code exchange
\* ---------------------------------------------------------------------------

\* C21: Authenticate(code) sets the held credential to the exchanged credential when
\* the exchange is accepted; when the exchange is rejected it fails with
\* AuthenticationError and leaves the held credential, the transport and the service
\* handle as they were.
C21_AuthenticateExchange ==
  [][(lastOp' = "Authenticate" /\ "exchange" \in lastIO') =>
       IF "FlowExchangeError" \in lastIO'
       THEN /\ lastErr' = "AuthenticationError"
            /\ credentials' = credentials
            /\ http' = http
            /\ service' = service
       ELSE /\ lastErr' = NoErr
            /\ flow' # {}
            /\ credentials' = {Exchanged(The(flow'), now')}]_vars

\* a rejected exchange while a credential is held and the service is built
C21_Witness ==
  /\ lastOp = "Authenticate"
  /\ "FlowExchangeError" \in lastIO
  /\ lastErr = "AuthenticationError"
  /\ credentials # {}
  /\ service = "built"

\* ---------------------------------------------------------------------------
\* Properties of the local webserver's port
\* ---------------------------------------------------------------------------

\* the candidate list of a LocalWebserverAuth call with arguments arg
Candidates(arg) ==
  IF QueryGet(arg, "port_numbers") = {} THEN <<8080, 8090>>
  ELSE The(QueryGet(arg, "port_numbers"))

\* the first candidate on which binding succeeds, as a set of at most one port
FirstBinding(arg) ==
  {Candidates(arg)[i] : i \in {j \in DOMAIN Candidates(arg) :
      /\ Candidates(arg)[j] \in QueryGet(arg, "free")
      /\ \A h \in 1..(j - 1) : Candidates(arg)[h] \notin QueryGet(arg, "free")}}

\* the body of LocalWebserverAuth runs in this step: a Flow is there, and no credential
\* is held or the held one is expired and has no refresh token
WebserverFlowRuns ==
  /\ lastOp' = "LocalWebserverAuth"
  /\ ~settings.save_credentials
  /\ flow' # {}
  /\ \/ credentials = {}
     \/ /\ \E e \in The(credentials).token_expiry : e <= now
        /\ The(credentials).refresh_token = None

\* C22: the local webserver flow binds its listener on the first port, in the order of
\* the candidate list, on which binding succeeds, and the redirect target given to the
\* Flow carries exactly that port; when no candidate binds, the empty list included, it
\* fails with AuthenticationError before an authorization URL is produced and leaves
\* the redirect target of the Flow as it was.
C22_FirstBindingPort ==
  [][WebserverFlowRuns =>
       /\ \A port \in FirstBinding(lastArg') :
            /\ The(flow').redirect_uri = "http://localhost:" \o ToString(port) \o "/"
            /\ "authorize_url" \in lastIO'
       /\ FirstBinding(lastArg') = {} =>
            /\ lastErr' = "AuthenticationError"
            /\ "authorize_url" \notin lastIO'
            /\ "handle_request" \notin lastIO'
            /\ The(flow').redirect_uri =
                 IF flow = {} THEN "client_config" ELSE The(flow).redirect_uri]_vars

\* both candidates bind and the redirect target carries the first of the list, 8090
C22_Witness ==
  /\ lastOp = "LocalWebserverAuth"
  /\ <<"port_numbers", {<<8090, 8080>>}>> \in lastArg
  /\ <<"free", {8080, 8090}>> \in lastArg
  /\ "authorize_url" \in lastIO
  /\ flow # {}
  /\ The(flow).redirect_uri = "http://localhost:8090/"

\* no candidate binds while the Flow holds the redirect target of an earlier call
C22_WitnessNoPort ==
  /\ lastOp = "LocalWebserverAuth"
  /\ <<"free", {}>> \in lastArg
  /\ lastErr = "AuthenticationError"
  /\ flow # {}
  /\ The(flow).redirect_uri = "http://localhost:8080/"

\* ---------------------------------------------------------------------------
\* Properties of construction
\* ---------------------------------------------------------------------------

\* the persistence settings name a missing or unknown value
PersistenceMisconfigured ==
  \/ /\ settings.save_credentials
     /\ settings.save_credentials_backend \notin {"file", "dictionary", "redis"}
  \/ /\ settings.save_credentials_backend = "file"
     /\ settings.save_credentials_file = None
  \/ /\ settings.save_credentials_backend = "dictionary"
     /\ settings.save_credentials_dict = None \/ settings.save_credentials_key = None

\* the kinds of which a backend instance exists
BackendKinds == {k \in DOMAIN _storages : _storages[k] \notin {None, Absent}}

\* C23: construction fails with InvalidConfigError when the persistence settings name
\* a missing or unknown value (saving enabled with no backend or one that is not file,
\* dictionary or redis; file without save_credentials_file; dictionary without
\* save_credentials_dict or save_credentials_key); otherwise it yields exactly one
\* backend instance, of the configured kind, and that instance is the default store.
C23_ConstructionBackends ==
  lastOp = "__init__" =>
    IF PersistenceMisconfigured THEN lastErr = "InvalidConfigError"
    ELSE /\ lastErr = NoErr
         /\ BackendKinds = {settings.save_credentials_backend}
         /\ _default_storage = _storages[settings.save_credentials_backend]

\* ---------------------------------------------------------------------------
\* Properties of GetFlow
\* ---------------------------------------------------------------------------

\* C24: for every client_config_backend and every completeness of the configured
\* fields, GetFlow either builds and caches a Flow from the loaded client configuration
\* or fails with InvalidConfigError: it fails in no other way and builds no Flow from
\* an incomplete client configuration.
C24_FlowOrInvalidConfig ==
  lastOp = "GetFlow" =>
    \/ lastErr = "InvalidConfigError"
    \/ /\ lastErr = NoErr
       /\ flow # {}
       /\ "OAuth2WebServerFlow" \in lastIO
       /\ \A i \in DOMAIN CLIENT_CONFIGS_LIST :
            client_config[CLIENT_CONFIGS_LIST[i]] # Absent

\* ---------------------------------------------------------------------------
\* Properties of repeated guarded calls
\* ---------------------------------------------------------------------------

\* thread t passes the checks of the guard in this step, the credential being valid and
\* the service built before it
ChecksAgain(t) ==
  /\ pc[t] = "idle"
  /\ pc'[t] = "checked"
  /\ auth
  /\ credentials # {}
  /\ \A e \in The(credentials).token_expiry : e > now
  /\ service # None

\* thread t chooses its transport in this step, having passed an explicit one
TakesExplicit(t) == pc[t] = "checked" /\ pc'[t] # "checked" /\ param[t] # None

\* the body of thread t starts in this step, the explicit transport consumed
BodyWithExplicit(t) == pc[t] = "bound" /\ pc'[t] = "body" /\ param[t] = Absent

\* C25: the checks of the guard are idempotent. A guarded call made with a valid
\* credential and a built service authenticates, refreshes and authorizes nothing, and
\* a thread that has a cached transport keeps it: at most one transport is created per
\* thread. An explicit transport passed in param is the one the body uses; it is
\* removed from param before the body runs and the cached transport of the thread is
\* left as it was.
C25_GuardIdempotent ==
  [][\A t \in Threads :
       /\ ChecksAgain(t) =>
            /\ lastIO' = {}
            /\ lastErr' = NoErr
            /\ credentials' = credentials
            /\ flow' = flow
            /\ http' = http
            /\ service' = service
       /\ thread_local[t] # None => thread_local'[t] = thread_local[t]
       /\ TakesExplicit(t) =>
            /\ obj_http' = param[t]
            /\ param'[t] = Absent
            /\ thread_local' = thread_local
       /\ BodyWithExplicit(t) => used'[t] = "caller"]_vars

\* ---------------------------------------------------------------------------
\* Properties of a successful authorization
\* ---------------------------------------------------------------------------

\* C26: after every call of LocalWebserverAuth, CommandLineAuth, DeviceAuth or
\* ServiceAuth that returns without error, whatever the state it started from, a
\* credential that is not expired is held and the API service handle is built.
C26_AuthorizedAfterSuccess ==
  (/\ lastOp \in {"LocalWebserverAuth", "CommandLineAuth", "DeviceAuth", "ServiceAuth"}
   /\ lastErr = NoErr)
    => /\ credentials # {}
       /\ \A e \in The(credentials).token_expiry : e > now
       /\ service = "built"

====
